---- MODULE Spec2Model ----
(***************************************************************************)
(* Model of src/lambda_function.py: a Lambda handler that authenticates a  *)
(* caller, downloads a zip archive from S3 and synchronises its content    *)
(* into the 'main' branch of a CodeCommit repository with one commit       *)
(* (push_to_codecommit).  Several invocations of the handler may run       *)
(* concurrently against the same repository; the interleaving points are   *)
(* the three CodeCommit calls get_branch, get_folder and create_commit.    *)
(***************************************************************************)
EXTENDS Integers, Sequences, FiniteSets, TLC

(***************************************************************************)
(* Bounds and input universes                                              *)
(***************************************************************************)
\* Total number of handler invocations in one behaviour.
MaxInvocations == 2

\* Concurrent execution environments of the Lambda function.
Procs == {1, 2}

\* Repository-relative file paths, as sequences of path components.  A path
\* with one component is a file in the repository root.
Paths == {<<"a.txt">>, <<"b.txt">>, <<"d", "c.txt">>}

\* Byte strings: b"", b"h", b"w" and b"\xff" (not valid UTF-8).
Empty == <<>>
Hello == <<104>>
World == <<119>>
BadBytes == <<255>>

\* Contents an archive member of the given name may have.  The archives
\* hold root-level members; the nested file is one the repository holds.
ArchiveContents(path) ==
    IF path = <<"a.txt">> THEN {Empty, Hello, BadBytes}
    ELSE IF path = <<"b.txt">> THEN {Hello}
    ELSE {}

\* Archives: mappings of some paths to contents.
Archives ==
    UNION {{f \in [S -> {Empty, Hello, BadBytes}] :
               \A k \in S : f[k] \in ArchiveContents(k)} : S \in SUBSET Paths}

\* Trees a branch may hold before the first invocation.
InitTrees == UNION {[S -> {World}] : S \in SUBSET Paths}

Branches == {"main", "master"}

VARIABLES
    head,              \* backend: branch name -> commit id of the branch head
    commits,           \* backend: commit id -> [parent, tree, by]
    defaultBranch,     \* backend: the branch the repository's HEAD names
    pc,                \* per invocation: the next step
    unzipped_content,  \* per invocation: dict path -> bytes (line 108-115)
    latest_commit_id,  \* per invocation: line 26
    existing_files,    \* per invocation: line 30
    put_changes,       \* per invocation: line 33, 47
    delete_changes,    \* per invocation: line 34, 39
    response,          \* per invocation: what the handler returned or raised
    calls,             \* history: the CodeCommit calls of the invocation
    inv,               \* history: number of the invocation run by the process
    invocations,       \* history: invocations started so far
    prev               \* history: archive and commit of the process's last invocation

vars == <<head, commits, defaultBranch, pc, unzipped_content, latest_commit_id,
          existing_files, put_changes, delete_changes, response, calls, inv,
          invocations, prev>>

backend == <<head, commits, defaultBranch>>
locals == <<unzipped_content, latest_commit_id, existing_files, put_changes,
            delete_changes>>

(***************************************************************************)
(* Helpers                                                                 *)
(***************************************************************************)
Range(s) == {s[i] : i \in 1..Len(s)}

RECURSIVE SetToSeq(_)
\* The elements of a finite set in the iteration order of the container.
SetToSeq(S) ==
    IF S = {} THEN <<>>
    ELSE LET x == CHOOSE y \in S : TRUE IN <<x>> \o SetToSeq(S \ {x})

NoResponse == [kind |-> "none", commitId |-> 0]
NoPrev == [content |-> <<>>, commit |-> 0]


(***************************************************************************)
(* bytes.decode("utf-8") (line 50) and the encoding of the string back to  *)
(* bytes when the request is serialised (line 62).                         *)
(***************************************************************************)
IsCont(b) == b >= 128 /\ b <= 191

\* Length of the UTF-8 sequence that starts b, or 0 when none does.
SeqLen(b) ==
    IF Len(b) >= 1 /\ b[1] <= 127 THEN 1
    ELSE IF Len(b) >= 2 /\ b[1] >= 194 /\ b[1] <= 223 /\ IsCont(b[2]) THEN 2
    ELSE IF /\ Len(b) >= 3 /\ b[1] >= 224 /\ b[1] <= 239
            /\ IsCont(b[2]) /\ IsCont(b[3])
            /\ (b[1] = 224 => b[2] >= 160)
            /\ (b[1] = 237 => b[2] <= 159) THEN 3
    ELSE IF /\ Len(b) >= 4 /\ b[1] >= 240 /\ b[1] <= 244
            /\ IsCont(b[2]) /\ IsCont(b[3]) /\ IsCont(b[4])
            /\ (b[1] = 240 => b[2] >= 144)
            /\ (b[1] = 244 => b[2] <= 143) THEN 4
    ELSE 0

CodePoint(b, n) ==
    IF n = 1 THEN b[1]
    ELSE IF n = 2 THEN (b[1] - 192) * 64 + (b[2] - 128)
    ELSE IF n = 3 THEN (b[1] - 224) * 4096 + (b[2] - 128) * 64 + (b[3] - 128)
    ELSE (b[1] - 240) * 262144 + (b[2] - 128) * 4096 + (b[3] - 128) * 64
         + (b[4] - 128)

RECURSIVE Decode(_)
\* content.decode("utf-8"): the code points, or ok = FALSE (UnicodeDecodeError).
Decode(b) ==
    IF b = <<>> THEN [ok |-> TRUE, text |-> <<>>]
    ELSE LET n == SeqLen(b) IN
         IF n = 0 THEN [ok |-> FALSE, text |-> <<>>]
         ELSE LET rest == Decode(SubSeq(b, n + 1, Len(b))) IN
              [ok |-> rest.ok,
               text |-> IF rest.ok THEN <<CodePoint(b, n)>> \o rest.text ELSE <<>>]

EncodeChar(c) ==
    IF c <= 127 THEN <<c>>
    ELSE IF c <= 2047 THEN <<192 + (c \div 64), 128 + (c % 64)>>
    ELSE IF c <= 65535
         THEN <<224 + (c \div 4096), 128 + ((c \div 64) % 64), 128 + (c % 64)>>
    ELSE <<240 + (c \div 262144), 128 + ((c \div 4096) % 64),
           128 + ((c \div 64) % 64), 128 + (c % 64)>>

RECURSIVE Encode(_)
\* The bytes the backend stores for the string given as fileContent.
Encode(t) == IF t = <<>> THEN <<>> ELSE EncodeChar(Head(t)) \o Encode(Tail(t))

(***************************************************************************)
(* push_to_codecommit: the change set (lines 32-51)                        *)
(***************************************************************************)
\* line 38: the file is marked for deletion when it is no key of the dict.
MarkedForDeletionNoNot(file_path, content) == file_path \in DOMAIN content
MarkedForDeletionOrEmpty(file_path, content) ==
    file_path \notin DOMAIN content \/ content[file_path] = <<>>
MarkedForDeletion(file_path, content) == file_path \notin DOMAIN content

RECURSIVE DeleteChanges(_, _)
\* lines 36-41: one {'filePath'} entry per listed file that is to be deleted.
DeleteChanges(files, content) ==
    IF files = <<>> THEN <<>>
    ELSE (IF MarkedForDeletion(Head(files), content)
          THEN <<[filePath |-> Head(files)]>> ELSE <<>>)
         \o DeleteChanges(Tail(files), content)

\* line 46: `if content`.
ContentTruthyAlways(c) == TRUE
ContentTruthy(c) == c # <<>>

RECURSIVE PutChangesOf(_, _)
\* lines 44-51 over the items in iteration order.
PutChangesOf(keys, content) ==
    IF keys = <<>> THEN <<>>
    ELSE (IF ContentTruthy(content[Head(keys)])
          THEN <<[filePath |-> Head(keys), fileMode |-> "NORMAL",
                  fileContent |-> Decode(content[Head(keys)]).text]>>
          ELSE <<>>)
         \o PutChangesOf(Tail(keys), content)

PutChanges(content) == PutChangesOf(SetToSeq(DOMAIN content), content)

\* line 50 raises UnicodeDecodeError for some non-empty member.
DecodeRaises(content) ==
    \E k \in DOMAIN content :
        ContentTruthy(content[k]) /\ ~Decode(content[k]).ok

(***************************************************************************)
(* The CodeCommit backend                                                  *)
(***************************************************************************)
\* get_folder(folderPath='/')['files']: the files directly in the root.
RootFiles(tree) == {f \in DOMAIN tree : Len(f) = 1}

\* The commit get_folder reads: no commitSpecifier is given (line 29), so
\* the backend serves the repository's HEAD, the head of the default branch.
FolderCommit == head[defaultBranch]

PathsOf(changes) == {changes[i].filePath : i \in 1..Len(changes)}

\* The tree of the commit create_commit makes from the parent's tree.
ApplyCommit(tree, putFiles, deleteFiles) ==
    LET kept == (DOMAIN tree \cup PathsOf(putFiles)) \ PathsOf(deleteFiles) IN
    [f \in kept |->
        IF f \in PathsOf(putFiles)
        THEN LET i == CHOOSE j \in 1..Len(putFiles) : putFiles[j].filePath = f
             IN Encode(putFiles[i].fileContent)
        ELSE tree[f]]

\* create_commit accepts the commit only on top of the branch head.
ParentIsHead(branch, parent) == head[branch] = parent


\* lambda_handler always pushes to 'main' (line 120).
BranchName == "main"

(***************************************************************************)
(* Initial state: a repository with its branches, no invocation running.   *)
(* 'master' starts at the same tree as 'main' unless it is the default     *)
(* branch, in which case it has a tree of its own.                         *)
(***************************************************************************)
Init ==
    /\ defaultBranch \in Branches
    /\ \E t \in InitTrees, u \in InitTrees :
          /\ defaultBranch = "main" => u = t
          /\ defaultBranch # "main" => DOMAIN u = RootFiles(u)
          /\ commits = <<[parent |-> 0, tree |-> t, by |-> 0],
                         [parent |-> 0, tree |-> u, by |-> 0]>>
    /\ head = [b \in Branches |-> IF b = "main" THEN 1 ELSE 2]
    /\ pc = [p \in Procs |-> "idle"]
    /\ unzipped_content = [p \in Procs |-> <<>>]
    /\ latest_commit_id = [p \in Procs |-> 0]
    /\ existing_files = [p \in Procs |-> <<>>]
    /\ put_changes = [p \in Procs |-> <<>>]
    /\ delete_changes = [p \in Procs |-> <<>>]
    /\ response = [p \in Procs |-> NoResponse]
    /\ calls = [p \in Procs |-> <<>>]
    /\ inv = [p \in Procs |-> 0]
    /\ invocations = 0
    /\ prev = [p \in Procs |-> NoPrev]

(***************************************************************************)
(* lambda_handler (lines 89-121)                                           *)
(***************************************************************************)
\* Execution environments are interchangeable: they are started in order.
CanInvoke(p) ==
    /\ pc[p] \in {"idle", "done"}
    /\ invocations < MaxInvocations
    /\ \A q \in Procs : q < p => inv[q] # 0

\* What every start of an invocation does to the process's state.
Begin(p, content, nextpc, resp) ==
    /\ invocations' = invocations + 1
    /\ inv' = [inv EXCEPT ![p] = invocations + 1]
    /\ prev' = [prev EXCEPT ![p] =
                   IF response[p].kind = "commit"
                   THEN [content |-> unzipped_content[p],
                         commit |-> response[p].commitId]
                   ELSE NoPrev]
    /\ unzipped_content' = [unzipped_content EXCEPT ![p] = content]
    /\ latest_commit_id' = [latest_commit_id EXCEPT ![p] = 0]
    /\ existing_files' = [existing_files EXCEPT ![p] = <<>>]
    /\ put_changes' = [put_changes EXCEPT ![p] = <<>>]
    /\ delete_changes' = [delete_changes EXCEPT ![p] = <<>>]
    /\ calls' = [calls EXCEPT ![p] = <<>>]
    /\ response' = [response EXCEPT ![p] = resp]
    /\ pc' = [pc EXCEPT ![p] = nextpc]
    /\ UNCHANGED backend

\* lines 94-98: the authorizer does not answer 200; its text is returned.
AuthFailure(p) ==
    /\ CanInvoke(p)
    /\ Begin(p, <<>>, "done", [kind |-> "AuthFailure", commitId |-> 0])

\* lines 105-115: get_object or ZipFile raises.
ArchiveError(p) ==
    /\ CanInvoke(p)
    /\ Begin(p, <<>>, "done", [kind |-> "ArchiveError", commitId |-> 0])

\* lines 91-120: the archive is unzipped into the dict and pushed.
LambdaHandler(p) ==
    /\ CanInvoke(p)
    /\ \E archive \in Archives : Begin(p, archive, "get_branch", NoResponse)

(***************************************************************************)
(* push_to_codecommit (lines 14-66)                                        *)
(***************************************************************************)
Call(p, op, status, commit) ==
    calls' = [calls EXCEPT ![p] =
                 Append(@, [op |-> op, status |-> status, commit |-> commit])]

Raise(p, kind) ==
    /\ pc' = [pc EXCEPT ![p] = "done"]
    /\ response' = [response EXCEPT ![p] = [kind |-> kind, commitId |-> 0]]

\* The step after get_branch returned: the root listing (line 29).
AfterGetBranchCommit(p) == "create_commit"
AfterGetBranch(p) == "get_folder"

\* lines 25-26
GetBranch(p) ==
    /\ pc[p] = "get_branch"
    /\ latest_commit_id' = [latest_commit_id EXCEPT ![p] = head[BranchName]]
    /\ Call(p, "get_branch", "ok", head[BranchName])
    /\ pc' = [pc EXCEPT ![p] = AfterGetBranch(p)]
    /\ UNCHANGED <<backend, unzipped_content, existing_files, put_changes,
                   delete_changes, response, inv, invocations, prev>>

\* line 25 raises (branch or repository not found, backend unavailable).
GetBranchError(p) ==
    /\ pc[p] = "get_branch"
    /\ Call(p, "get_branch", "error", 0)
    /\ Raise(p, "GetBranchError")
    /\ UNCHANGED <<backend, locals, inv, invocations, prev>>

\* lines 29-51: the listing, then the two loops that build the change set.
GetFolder(p) ==
    /\ pc[p] = "get_folder"
    /\ Call(p, "get_folder", "ok", FolderCommit)
    /\ LET files == SetToSeq(RootFiles(commits[FolderCommit].tree)) IN
       /\ existing_files' = [existing_files EXCEPT ![p] = files]
       /\ delete_changes' = [delete_changes EXCEPT ![p] =
                                DeleteChanges(files, unzipped_content[p])]
    /\ IF DecodeRaises(unzipped_content[p])
       THEN /\ Raise(p, "UnicodeDecodeError")
            /\ UNCHANGED put_changes
       ELSE /\ put_changes' = [put_changes EXCEPT ![p] =
                                  PutChanges(unzipped_content[p])]
            /\ pc' = [pc EXCEPT ![p] = "create_commit"]
            /\ UNCHANGED response
    /\ UNCHANGED <<backend, unzipped_content, latest_commit_id, inv,
                   invocations, prev>>

\* The step after get_folder raised: the exception leaves the function.
AfterGetFolderErrorContinue(p) == "create_commit"
AfterGetFolderError(p) == "done"

\* line 29 raises.
GetFolderError(p) ==
    /\ pc[p] = "get_folder"
    /\ Call(p, "get_folder", "error", 0)
    /\ pc' = [pc EXCEPT ![p] = AfterGetFolderError(p)]
    /\ response' = [response EXCEPT ![p] =
                       [kind |-> "GetFolderError", commitId |-> 0]]
    /\ UNCHANGED <<backend, locals, inv, invocations, prev>>

\* line 57: parentCommitId=latest_commit_id.
ParentCommitIdRefetched(p) == head[BranchName]
ParentCommitId(p) == latest_commit_id[p]

\* lines 54-66: the backend accepts the commit and moves the branch.
CreateCommit(p) ==
    /\ pc[p] = "create_commit"
    /\ ParentIsHead(BranchName, ParentCommitId(p))
    /\ LET id == Len(commits) + 1
           parent == ParentCommitId(p) IN
       /\ commits' = Append(commits,
                        [parent |-> parent,
                         tree |-> ApplyCommit(commits[parent].tree,
                                              put_changes[p], delete_changes[p]),
                         by |-> inv[p]])
       /\ head' = [head EXCEPT ![BranchName] = id]
       /\ Call(p, "create_commit", "ok", parent)
       /\ response' = [response EXCEPT ![p] = [kind |-> "commit", commitId |-> id]]
    /\ pc' = [pc EXCEPT ![p] = "done"]
    /\ UNCHANGED <<defaultBranch, locals, inv, invocations, prev>>

\* The step after ParentCommitIdOutdatedException: no except clause, no retry.
AfterConflictRetry(p) == "get_branch"
AfterConflict(p) == "done"

\* lines 54-64: the backend rejects the stale parent.
CreateCommitConflict(p) ==
    /\ pc[p] = "create_commit"
    /\ ~ParentIsHead(BranchName, ParentCommitId(p))
    /\ Call(p, "create_commit", "stale", ParentCommitId(p))
    /\ pc' = [pc EXCEPT ![p] = AfterConflict(p)]
    /\ response' = [response EXCEPT ![p] =
                       [kind |-> "CommitConflict", commitId |-> 0]]
    /\ UNCHANGED <<backend, locals, inv, invocations, prev>>

\* lines 54-64: create_commit raises for another reason (backend unavailable).
CreateCommitError(p) ==
    /\ pc[p] = "create_commit"
    /\ Call(p, "create_commit", "error", ParentCommitId(p))
    /\ Raise(p, "CreateCommitError")
    /\ UNCHANGED <<backend, locals, inv, invocations, prev>>

Next ==
    \E p \in Procs :
        \/ AuthFailure(p)
        \/ ArchiveError(p)
        \/ LambdaHandler(p)
        \/ GetBranch(p)
        \/ GetBranchError(p)
        \/ GetFolder(p)
        \/ GetFolderError(p)
        \/ CreateCommit(p)
        \/ CreateCommitConflict(p)
        \/ CreateCommitError(p)

Spec == Init /\ [][Next]_vars


(***************************************************************************)
(* Vocabulary of the properties                                            *)
(***************************************************************************)
Committed(p) == response[p].kind = "commit"

HasCall(p, op) == \E i \in 1..Len(calls[p]) : calls[p][i].op = op

\* The change set has been passed to create_commit.
Issued(p) == HasCall(p, "create_commit")

\* The two loops of lines 36-51 have run to completion.
ChangesBuilt(p) == pc[p] = "create_commit" \/ Issued(p)

NonEmptyKeys(content) == {k \in DOMAIN content : content[k] # <<>>}

CommitsBy(n) == {c \in 1..Len(commits) : commits[c].by = n}

ParentOf(c) == commits[c].parent

\* The listing the invocation used is the root of its commit's parent.
ListedParent(p) ==
    Range(existing_files[p]) = RootFiles(commits[latest_commit_id[p]].tree)

\* The commit of the invocation is one every CodeCommit accepts: it changes
\* the tree, deletes only files the parent has, and names no path twice.
Effective(p) ==
    /\ Committed(p)
    /\ commits[response[p].commitId].tree
           # commits[ParentOf(response[p].commitId)].tree
    /\ PathsOf(delete_changes[p])
           \subseteq DOMAIN commits[ParentOf(response[p].commitId)].tree
    /\ PathsOf(delete_changes[p]) \cap PathsOf(put_changes[p]) = {}

(***************************************************************************)
(* C1: after a successful push with no concurrent writer, the root files   *)
(* of the branch are exactly the keys of the archive whose content is not  *)
(* empty, each with the archive's content.  Stated for the root-level keys *)
(* and for invocations whose listing was the parent's root.                *)
(***************************************************************************)
C1_TreeEqualsDesired ==
    \A p \in Procs :
        (Effective(p) /\ head[BranchName] = response[p].commitId
            /\ ListedParent(p)) =>
            LET t == commits[response[p].commitId].tree
                want == {k \in NonEmptyKeys(unzipped_content[p]) : Len(k) = 1}
            IN /\ RootFiles(t) = want
               /\ \A k \in want : t[k] = unzipped_content[p][k]

(***************************************************************************)
(* C2: every listed file that is a key of the archive with empty content   *)
(* is in the delete-set.                                                   *)
(***************************************************************************)
C2_EmptyKeyDeleted ==
    \A p \in Procs :
        ChangesBuilt(p) =>
            \A f \in Range(existing_files[p]) :
                (f \in DOMAIN unzipped_content[p]
                    /\ unzipped_content[p][f] = <<>>) =>
                    f \in PathsOf(delete_changes[p])

(***************************************************************************)
(* C3: idempotence of re-sync.  When an invocation follows a successful    *)
(* one of the same process with the same archive and nobody else has       *)
(* committed since, the branch's tree after it equals the tree the first   *)
(* call left.                                                              *)
(***************************************************************************)
Resync(p) ==
    /\ pc[p] = "done"
    /\ prev[p].commit # 0
    /\ unzipped_content[p] = prev[p].content

C3_Idempotent ==
    \A p \in Procs :
        (Resync(p) /\ \/ head[BranchName] = prev[p].commit
                      \/ /\ Committed(p)
                         /\ head[BranchName] = response[p].commitId
                         /\ ParentOf(response[p].commitId) = prev[p].commit) =>
            commits[head[BranchName]].tree = commits[prev[p].commit].tree

C3_Witness ==
    \E p \in Procs :
        /\ Resync(p) /\ Committed(p)
        /\ head[BranchName] = response[p].commitId
        /\ ParentOf(response[p].commitId) = prev[p].commit
        /\ existing_files[p] # <<>>
        /\ put_changes[p] # <<>>
        /\ commits[prev[p].commit].tree
               # commits[ParentOf(prev[p].commit)].tree

(***************************************************************************)
(* C4: the delete-set is exactly the listed files that are not keys of the *)
(* archive, each once; no key and no path outside the listing is in it.    *)
(***************************************************************************)
C4_DeleteSet ==
    \A p \in Procs :
        ChangesBuilt(p) =>
            LET D == delete_changes[p] IN
            /\ PathsOf(D) = {f \in Range(existing_files[p]) :
                                f \notin DOMAIN unzipped_content[p]}
            /\ \A i, j \in 1..Len(D) : D[i].filePath = D[j].filePath => i = j

C4_Witness ==
    \E p \in Procs :
        /\ Issued(p)
        /\ delete_changes[p] # <<>>
        /\ \E f \in Range(existing_files[p]) :
               /\ f \in DOMAIN unzipped_content[p]
               /\ unzipped_content[p][f] = <<>>
        /\ \E g \in DOMAIN commits[latest_commit_id[p]].tree : Len(g) > 1

(***************************************************************************)
(* C5: an invocation calls create_commit at most once: once when it        *)
(* succeeds, and never when get_branch or get_folder failed, and then no   *)
(* commit of the repository is this invocation's.                          *)
(***************************************************************************)
CreateCommitCalls(p) ==
    Cardinality({i \in 1..Len(calls[p]) : calls[p][i].op = "create_commit"})

FailedBeforeCommit(p) ==
    \E i \in 1..Len(calls[p]) :
        /\ calls[p][i].op \in {"get_branch", "get_folder"}
        /\ calls[p][i].status = "error"

C5_SingleCommit ==
    \A p \in Procs :
        /\ CreateCommitCalls(p) <= 1
        /\ inv[p] # 0 => Cardinality(CommitsBy(inv[p])) <= 1
        /\ Committed(p) =>
              CreateCommitCalls(p) = 1 /\ CommitsBy(inv[p]) = {response[p].commitId}
        /\ FailedBeforeCommit(p) =>
              CreateCommitCalls(p) = 0 /\ CommitsBy(inv[p]) = {}

C5_Witness ==
    \E p, q \in Procs :
        /\ Committed(p)
        /\ put_changes[p] # <<>> /\ delete_changes[p] # <<>>
        /\ pc[q] = "done" /\ response[q].kind = "GetFolderError"

(***************************************************************************)
(* C6: a create_commit rejected for a stale parent is the last backend     *)
(* call of the invocation, which ends with CommitConflict; the rejection   *)
(* changes neither the head nor any tree.                                  *)
(***************************************************************************)
Rejected(p) ==
    \E i \in 1..Len(calls[p]) : calls[p][i].status = "stale"

C6_Surfaced ==
    \A p \in Procs :
        \A i \in 1..Len(calls[p]) :
            calls[p][i].status = "stale" =>
                /\ i = Len(calls[p])
                /\ pc[p] = "done"
                /\ response[p].kind = "CommitConflict"
                /\ CreateCommitCalls(p) = 1
                /\ Cardinality({j \in 1..Len(calls[p]) :
                                   calls[p][j].op = "get_branch"}) = 1

C6_NoMutation ==
    \A p \in Procs :
        (~Rejected(p) /\ Rejected(p)') => (head' = head /\ commits' = commits)

C6_ConflictSurfaces == [](C6_Surfaced) /\ [][C6_NoMutation]_vars

C6_Witness ==
    \E p \in Procs :
        /\ Rejected(p)
        /\ put_changes[p] # <<>>
        /\ delete_changes[p] # <<>>


(***************************************************************************)
(* C7: of two invocations that fetched the same parent commit id at most   *)
(* one commits; the other's create_commit, if the backend answers it, is   *)
(* rejected as a conflict; the parent has one child, whose tree is the     *)
(* parent's tree changed by the winner's change set alone, and the branch  *)
(* points to it until somebody commits on top of it.                       *)
(***************************************************************************)
SameParent(p, q) ==
    /\ p # q
    /\ latest_commit_id[p] # 0
    /\ latest_commit_id[p] = latest_commit_id[q]

C7_OneWinner ==
    \A p, q \in Procs :
        (SameParent(p, q) /\ Committed(p)) =>
            LET c == response[p].commitId IN
            /\ ~Committed(q)
            /\ Issued(q) => response[q].kind \in {"CommitConflict", "CreateCommitError"}
            /\ (Issued(q) /\ calls[q][Len(calls[q])].status # "error") =>
                   response[q].kind = "CommitConflict"
            /\ {d \in 1..Len(commits) : ParentOf(d) = latest_commit_id[p]} = {c}
            /\ commits[c].tree =
                   ApplyCommit(commits[latest_commit_id[p]].tree,
                               put_changes[p], delete_changes[p])
            /\ head[BranchName] = c \/ \E d \in 1..Len(commits) : ParentOf(d) = c

C7_Witness ==
    \E p, q \in Procs :
        /\ SameParent(p, q) /\ Committed(p)
        /\ response[q].kind = "CommitConflict"
        /\ put_changes[p] # <<>> /\ put_changes[q] # <<>>
        /\ PathsOf(put_changes[p]) # PathsOf(put_changes[q])
        /\ delete_changes[q] # <<>>

(***************************************************************************)
(* C8: the put-set passed to create_commit holds one entry, of mode        *)
(* NORMAL, for every key of the archive whose content is not empty, with   *)
(* that content, and nothing else, whatever the tree holds.                *)
(***************************************************************************)
C8_PutSet ==
    \A p \in Procs :
        ChangesBuilt(p) =>
            LET P == put_changes[p] IN
            /\ PathsOf(P) = NonEmptyKeys(unzipped_content[p])
            /\ \A i \in 1..Len(P) :
                  /\ P[i].fileMode = "NORMAL"
                  /\ Encode(P[i].fileContent) = unzipped_content[p][P[i].filePath]
            /\ \A i, j \in 1..Len(P) : P[i].filePath = P[j].filePath => i = j

C8_Witness ==
    \E p \in Procs :
        /\ Issued(p)
        /\ \E k \in DOMAIN unzipped_content[p] : unzipped_content[p][k] = <<>>
        /\ \E k \in PathsOf(put_changes[p]) : k \in Range(existing_files[p])
        /\ \E k \in PathsOf(put_changes[p]) :
               k \notin DOMAIN commits[latest_commit_id[p]].tree

(***************************************************************************)
(* C9, as claimed: the call that precedes create_commit in an invocation   *)
(* is the get_branch head fetch, with no other backend call in between.    *)
(***************************************************************************)
C9_HeadFetchedLast ==
    \A p \in Procs :
        pc[p] = "create_commit" =>
            /\ calls[p] # <<>>
            /\ calls[p][Len(calls[p])].op = "get_branch"

(***************************************************************************)
(* C9, amended: the parent commit id given to create_commit is the head    *)
(* that get_branch returned as the first backend call of the invocation;   *)
(* exactly one backend call, the root listing, lies between the two.       *)
(***************************************************************************)
C9_HeadFetchedFirst ==
    \A p \in Procs :
        /\ pc[p] = "create_commit" =>
              /\ Len(calls[p]) = 2
              /\ calls[p][1].op = "get_branch" /\ calls[p][1].status = "ok"
              /\ calls[p][2].op = "get_folder" /\ calls[p][2].status = "ok"
              /\ ParentCommitId(p) = calls[p][1].commit
        /\ \A i \in 1..Len(calls[p]) :
              calls[p][i].op = "create_commit" =>
                  /\ i = 3
                  /\ calls[p][1].op = "get_branch" /\ calls[p][1].status = "ok"
                  /\ calls[p][2].op = "get_folder" /\ calls[p][2].status = "ok"
                  /\ calls[p][i].commit = calls[p][1].commit

C9_Witness ==
    \E p, q \in Procs :
        /\ p # q
        /\ Rejected(p)
        /\ Committed(q)
        /\ calls[p][3].commit = ParentOf(response[q].commitId)

(***************************************************************************)
(* C10: whenever an invocation's create_commit succeeds, the root listing  *)
(* it computed the delete-set from is the root of the tree of the commit's *)
(* parent.                                                                 *)
(***************************************************************************)
C10_ListingIsParentTree ==
    \A p \in Procs :
        Effective(p) =>
            Range(existing_files[p])
                = RootFiles(commits[ParentOf(response[p].commitId)].tree)

\* The same, for repositories whose default branch is the branch pushed to.
ListingIsParentTreeOnDefault ==
    \A p \in Procs :
        (Committed(p) /\ defaultBranch = BranchName) =>
            Range(existing_files[p])
                = RootFiles(commits[ParentOf(response[p].commitId)].tree)

====
